---- MODULE Spec2Model ----
(***************************************************************************)
(* The OpenWeatherMap prompt segment (src/src/segments/owm.go): the        *)
(* fetch / cache / derive pipeline behind Owm.Enabled().                   *)
(*                                                                         *)
(* Strings that the code inspects or assembles (property values,           *)
(* environment values, URLs) are sequences of tokens, a token being one    *)
(* reserved character (" ", ",", "&", "=", "?") or a run of unreserved     *)
(* characters; the empty string is <<>>.  Glyphs and error texts, which    *)
(* the code only stores and compares, are atomic strings.  Temperatures    *)
(* are fixed-point numbers in tenths of a degree.                          *)
(***************************************************************************)
EXTENDS Integers, Sequences, FiniteSets, TLC

VARIABLES
    props,   \* d.props: the configured properties, a function on the keys that are set
    env,     \* the process environment read through d.env.Getenv
    cache,   \* d.env.Cache(): the entries, key -> [set, val, exp]
    now,     \* the cache store's clock, in minutes
    d,       \* the exported and unexported fields of the Owm value
    call,    \* what the most recent Enabled() invocation did and returned
    lastOk,  \* history: the fields as the last invocation that returned true left them
    fill,    \* history: the invocation that last fetched, returned true and cached
    conc     \* the segments that run Enabled() concurrently, each at its step

vars == <<props, env, cache, now, d, call, lastOk, fill, conc>>

\* The last minute of the clock.
MaxTime == 3

----------------------------------------------------------------------------
(* Constants of the source *)

APIKey == "api_key"
APIKeyAlias == "apiKey"
Location == "location"
Latitude == "lat"
Longitude == "lon"
Units == "units"
CacheTimeout == "cache_timeout"
CacheKeyResponse == "owm_response"
CacheKeyURL == "owm_url"
PoshOWMAPIKey == "POSH_OWM_API_KEY"
PoshOWMLocationKey == "POSH_OWM_LOCATION"
PoshOWMLatKey == "POSH_OWM_LAT"
PoshOWMLonKey == "POSH_OWM_LON"

DefaultAPIKey == <<".">>
DefaultLocation == <<"De", " ", "Bilt", ",", "NL">>
DefaultLatLon == <<"0">>
DefaultUnits == <<"standard">>

NoErr == "nil"
ErrNoAPIKey == "no api key found"
ErrNoData == "No data found"
ErrCacheJSON == "json: cannot unmarshal cached value"
ErrTransport == "http request failed"
ErrBodyJSON == "json: cannot unmarshal response body"

----------------------------------------------------------------------------
(* The host interfaces the segment consumes *)

\* properties.OneOf: the value of the first of the keys that is set, else the default.
OneOf(p, defaultValue, keys) ==
    LET set == {i \in 1..Len(keys) : keys[i] \in DOMAIN p}
    IN  IF set = {} THEN defaultValue
        ELSE p[keys[CHOOSE i \in set : \A j \in set : i <= j]]

\* props.GetString(key, default)
GetString(p, key, defaultValue) ==
    IF key \in DOMAIN p THEN p[key] ELSE defaultValue

\* props.GetInt(properties.CacheTimeout, ...): the property is set in every
\* configuration of the model.
GetInt(p, key) == p[key]

\* env.Getenv: an unset variable reads as the empty string.
Getenv(e, key) == e[key]

\* The cache store as an invocation sees it: kv, the entries, and sets, the
\* keys the invocation has written so far.
\* Cache().Get: found only while the entry is set and not past its expiry.
CacheFound(c, t, key) == c.kv[key].set /\ t < c.kv[key].exp

CacheGet(c, t, key) == IF CacheFound(c, t, key) THEN c.kv[key].val ELSE <<>>

\* Cache().Set(key, value, ttl)
CacheSet(c, t, key, value, ttl) ==
    [kv |-> [c.kv EXCEPT ![key] = [set |-> TRUE, val |-> value, exp |-> t + ttl]],
     sets |-> Append(c.sets, key)]

NoEntry == [set |-> FALSE, val |-> <<>>, exp |-> 0]

----------------------------------------------------------------------------
(* JSON payloads and encoding/json *)

\* A payload is <<kind>> or <<"object", Data, temp>>: text that is not the
\* expected JSON, the JSON literal null, or an object with its "weather"
\* array (the icon codes) and its "main"."temp" (in tenths).
BodyInvalid == <<"invalid">>
BodyNull == <<"null">>
BodyObject(data, temp) == <<"object", data, temp>>

\* A *owmDataResponse: nil, or a struct with Data and temperature.Value.
NilResponse == [nil |-> TRUE, Data |-> <<>>, Value |-> 0]
NewResponse == [nil |-> FALSE, Data |-> <<>>, Value |-> 0]
Struct(body) == [nil |-> FALSE, Data |-> body[2], Value |-> body[3]]

\* json.Unmarshal([]byte(val), response), response a *owmDataResponse: null
\* leaves the struct as it is.
UnmarshalInto(body) ==
    IF Len(body) = 0 \/ body[1] = "invalid" THEN [err |-> ErrCacheJSON, v |-> NewResponse]
    ELSE IF body[1] = "null" THEN [err |-> NoErr, v |-> NewResponse]
    ELSE [err |-> NoErr, v |-> Struct(body)]

\* json.Unmarshal(body, &response), &response a **owmDataResponse: null sets
\* the pointer response to nil.
UnmarshalPtr(body) ==
    IF Len(body) = 0 \/ body[1] = "invalid" THEN [err |-> ErrBodyJSON, v |-> NewResponse]
    ELSE IF body[1] = "null" THEN [err |-> NoErr, v |-> NilResponse]
    ELSE [err |-> NoErr, v |-> Struct(body)]

----------------------------------------------------------------------------
(* URL construction *)

EscapeToken(tok) ==
    CASE tok = " " -> "+"
      [] tok = "," -> "%2C"
      [] tok = "&" -> "%26"
      [] tok = "=" -> "%3D"
      [] tok = "?" -> "%3F"
      [] OTHER -> tok

\* url.QueryEscape
QueryEscape(s) == [i \in 1..Len(s) |-> EscapeToken(s[i])]

Endpoint == <<"https://api.openweathermap.org/data/2.5/weather">>

PlaceURL(location, units, apikey) ==
    Endpoint \o <<"?", "q", "=">> \o location \o <<"&", "units", "=">> \o units
             \o <<"&", "appid", "=">> \o apikey

CoordURL(lat, lon, units, apikey) ==
    Endpoint \o <<"?", "lat", "=">> \o lat \o <<"&", "lon", "=">> \o lon
             \o <<"&", "units", "=">> \o units \o <<"&", "appid", "=">> \o apikey

\* d.getPropOrEnvVar
getPropOrEnvVar(p, e, envKey, defaultValue, propKeyOptions) ==
    LET v == OneOf(p, defaultValue, propKeyOptions)
    IN  IF Len(v) = 0 THEN Getenv(e, envKey) ELSE v

ResolveAPIKey(p, e) == getPropOrEnvVar(p, e, PoshOWMAPIKey, DefaultAPIKey, <<APIKey, APIKeyAlias>>)
ResolveLocation(p, e) == getPropOrEnvVar(p, e, PoshOWMLocationKey, DefaultLocation, <<Location>>)
ResolveLat(p, e) == getPropOrEnvVar(p, e, PoshOWMLatKey, DefaultLatLon, <<Latitude>>)
ResolveLon(p, e) == getPropOrEnvVar(p, e, PoshOWMLonKey, DefaultLatLon, <<Longitude>>)

\* A faulty variant of BuildURL: the location, latitude and longitude go into
\* the URL as they are, without url.QueryEscape.
BuildURL_Unescaped(p, e) ==
    LET apikey == ResolveAPIKey(p, e)
        units == GetString(p, Units, DefaultUnits)
        location == ResolveLocation(p, e)
    IN  IF Len(location) > 0
        THEN PlaceURL(location, units, apikey)
        ELSE CoordURL(ResolveLat(p, e), ResolveLon(p, e), units, apikey)

\* The branch of getResult that assigns d.URL.
BuildURL(p, e) ==
    LET apikey == ResolveAPIKey(p, e)
        units == GetString(p, Units, DefaultUnits)
        location == ResolveLocation(p, e)
    IN  IF Len(location) > 0
        THEN PlaceURL(QueryEscape(location), units, apikey)
        ELSE CoordURL(QueryEscape(ResolveLat(p, e)), QueryEscape(ResolveLon(p, e)),
                      units, apikey)

----------------------------------------------------------------------------
(* getResult *)

\* A faulty variant of CacheWrite: the write is not guarded by cacheTimeout > 0.
CacheWrite_Unguarded(c, t, body, url, cacheTimeout) ==
    CacheSet(CacheSet(c, t, CacheKeyResponse, body, cacheTimeout),
             t, CacheKeyURL, url, cacheTimeout)

\* A faulty variant of CacheWrite: only owm_response is written.
CacheWrite_ResponseOnly(c, t, body, url, cacheTimeout) ==
    IF cacheTimeout > 0
    THEN CacheSet(c, t, CacheKeyResponse, body, cacheTimeout)
    ELSE c

\* A faulty variant of CacheWrite: an entry already in the store, expired or
\* not, is kept.
CacheWrite_KeepExisting(c, t, body, url, cacheTimeout) ==
    IF cacheTimeout > 0 /\ ~c.kv[CacheKeyResponse].set
    THEN CacheSet(CacheSet(c, t, CacheKeyResponse, body, cacheTimeout),
                  t, CacheKeyURL, url, cacheTimeout)
    ELSE c

\* The cache write that follows a fetched and parsed response.
CacheWrite(c, t, body, url, cacheTimeout) ==
    IF cacheTimeout > 0
    THEN CacheSet(CacheSet(c, t, CacheKeyResponse, body, cacheTimeout),
                  t, CacheKeyURL, url, cacheTimeout)
    ELSE c

\* The result of getResult and everything it did: q and err are the values
\* it returns, URL the value it leaves in d.URL, cache the store as it
\* leaves it, http the URLs it requested, gets the cache keys it read, hit
\* whether it returned from the cache lookup.
Outcome(q, err, url, c, http, gets, hit) ==
    [q |-> q, err |-> err, URL |-> url, cache |-> c, http |-> http,
     gets |-> gets, hit |-> hit]

\* A faulty variant of FromCache: owm_url is not read, d.URL stays as it was.
FromCache_KeepURL(c, t, url0) ==
    LET um == UnmarshalInto(CacheGet(c, t, CacheKeyResponse))
    IN  IF um.err # NoErr
        THEN Outcome(NilResponse, um.err, url0, c, <<>>, <<CacheKeyResponse>>, TRUE)
        ELSE Outcome(um.v, NoErr, url0, c, <<>>, <<CacheKeyResponse>>, TRUE)

\* The cache lookup, taken when cacheTimeout > 0 and owm_response was found.
FromCache(c, t, url0) ==
    LET um == UnmarshalInto(CacheGet(c, t, CacheKeyResponse))
    IN  IF um.err # NoErr
        THEN Outcome(NilResponse, um.err, url0, c, <<>>, <<CacheKeyResponse>>, TRUE)
        ELSE Outcome(um.v, NoErr, CacheGet(c, t, CacheKeyURL), c, <<>>,
                     <<CacheKeyResponse, CacheKeyURL>>, TRUE)

\* A faulty variant of Fetch: a failed request is attempted a second time.
Fetch_Retry(p, e, c, t, resp, gets) ==
    LET cacheTimeout == GetInt(p, CacheTimeout)
        url == BuildURL(p, e)
        um == UnmarshalPtr(resp.body)
    IN  IF resp.err # NoErr
        THEN Outcome(NewResponse, resp.err, url, c, <<url, url>>, gets, FALSE)
        ELSE IF um.err # NoErr
        THEN Outcome(NewResponse, um.err, url, c, <<url>>, gets, FALSE)
        ELSE Outcome(um.v, NoErr, url, CacheWrite(c, t, resp.body, url, cacheTimeout),
                     <<url>>, gets, FALSE)

\* A faulty variant of Fetch: the body is cached before it is deserialized.
Fetch_CacheUnparsed(p, e, c, t, resp, gets) ==
    LET cacheTimeout == GetInt(p, CacheTimeout)
        url == BuildURL(p, e)
        um == UnmarshalPtr(resp.body)
        written == CacheWrite(c, t, resp.body, url, cacheTimeout)
    IN  IF resp.err # NoErr
        THEN Outcome(NewResponse, resp.err, url, c, <<url>>, gets, FALSE)
        ELSE IF um.err # NoErr
        THEN Outcome(NewResponse, um.err, url, written, <<url>>, gets, FALSE)
        ELSE Outcome(um.v, NoErr, url, written, <<url>>, gets, FALSE)

\* The request and what follows it; resp is what env.HTTPRequest returns.
Fetch(p, e, c, t, resp, gets) ==
    LET cacheTimeout == GetInt(p, CacheTimeout)
        url == BuildURL(p, e)
        um == UnmarshalPtr(resp.body)
    IN  IF resp.err # NoErr
        THEN Outcome(NewResponse, resp.err, url, c, <<url>>, gets, FALSE)
        ELSE IF um.err # NoErr
        THEN Outcome(NewResponse, um.err, url, c, <<url>>, gets, FALSE)
        ELSE Outcome(um.v, NoErr, url, CacheWrite(c, t, resp.body, url, cacheTimeout),
                     <<url>>, gets, FALSE)

\* A faulty variant of getResult: the cache is never consulted.
getResult_AlwaysFetch(p, e, c, t, url0, resp) ==
    IF Len(ResolveAPIKey(p, e)) = 0
    THEN Outcome(NilResponse, ErrNoAPIKey, url0, c, <<>>, <<>>, FALSE)
    ELSE Fetch(p, e, c, t, resp, <<>>)

\* A faulty variant of getResult: a cached value that does not deserialize
\* is treated as a miss.
getResult_CorruptIsMiss(p, e, c, t, url0, resp) ==
    LET cacheTimeout == GetInt(p, CacheTimeout)
        gets == IF cacheTimeout > 0 THEN <<CacheKeyResponse>> ELSE <<>>
    IN  IF /\ cacheTimeout > 0
           /\ CacheFound(c, t, CacheKeyResponse)
           /\ UnmarshalInto(CacheGet(c, t, CacheKeyResponse)).err = NoErr
        THEN FromCache(c, t, url0)
        ELSE IF Len(ResolveAPIKey(p, e)) = 0
        THEN Outcome(NilResponse, ErrNoAPIKey, url0, c, <<>>, gets, FALSE)
        ELSE Fetch(p, e, c, t, resp, gets)

getResult(p, e, c, t, url0, resp) ==
    LET cacheTimeout == GetInt(p, CacheTimeout)
        gets == IF cacheTimeout > 0 THEN <<CacheKeyResponse>> ELSE <<>>
    IN  IF cacheTimeout > 0 /\ CacheFound(c, t, CacheKeyResponse)
        THEN FromCache(c, t, url0)
        ELSE IF Len(ResolveAPIKey(p, e)) = 0
        THEN Outcome(NilResponse, ErrNoAPIKey, url0, c, <<>>, gets, FALSE)
        ELSE Fetch(p, e, c, t, resp, gets)

----------------------------------------------------------------------------
(* setStatus and Enabled *)

Abs(x) == IF x < 0 THEN -x ELSE x

\* A faulty variant of Round: halves go up, math.Floor(v + 0.5).
Round_HalfUp(tenths) ==
    IF tenths + 5 < 0 THEN -((Abs(tenths + 5) + 9) \div 10) ELSE (tenths + 5) \div 10

\* int(math.Round(v)) of a value in tenths: half away from zero.
Round(tenths) ==
    IF tenths < 0 THEN -((Abs(tenths) + 5) \div 10) ELSE (tenths + 5) \div 10

\* The switch on the type code of the first observation.
IconOf(id) ==
    CASE id = "01n" -> "U+E32B"
      [] id = "01d" -> "U+E30D"
      [] id = "02n" -> "U+E37E"
      [] id = "02d" -> "U+E302"
      [] id \in {"03n", "03d"} -> "U+E33D"
      [] id \in {"04n", "04d"} -> "U+E312"
      [] id \in {"09n", "09d"} -> "U+E319"
      [] id = "10n" -> "U+E325"
      [] id = "10d" -> "U+E308"
      [] id = "11n" -> "U+E32A"
      [] id = "11d" -> "U+E30F"
      [] id \in {"13n", "13d"} -> "U+E31A"
      [] id \in {"50n", "50d"} -> "U+E313"
      [] OTHER -> ""

\* The unit suffixes, written by their code points: U+00B0 is the degree sign.
DegF == "U+00B0 F"
DegC == "U+00B0 C"
DegK == "U+00B0 K"
DegGlyph == "U+E33E"

\* A faulty variant of UnitIconOf: the case "" is missing.
UnitIconOf_NoEmptyCase(units) ==
    CASE units = <<"imperial">> -> DegF
      [] units = <<"metric">> -> DegC
      [] units = <<"standard">> -> DegK
      [] OTHER -> DegGlyph

\* The switch on d.units.
UnitIconOf(units) ==
    CASE units = <<"imperial">> -> DegF
      [] units = <<"metric">> -> DegC
      [] units = <<>> -> DegK
      [] units = <<"standard">> -> DegK
      [] OTHER -> DegGlyph

\* The Owm value as constructed: every field has its zero value.
ZeroOwm == [Temperature |-> 0, Weather |-> "", URL |-> <<>>, units |-> <<>>, UnitIcon |-> ""]

\* A faulty variant of setStatus: the type code is taken from the last
\* observation.
setStatus_LastObservation(p, dd, r) ==
    LET units == GetString(p, Units, DefaultUnits)
        kept == [dd EXCEPT !.URL = r.URL]
    IN  IF r.err # NoErr THEN [err |-> r.err, panic |-> FALSE, d |-> kept]
        ELSE IF r.q.nil THEN [err |-> NoErr, panic |-> TRUE, d |-> kept]
        ELSE IF Len(r.q.Data) = 0 THEN [err |-> ErrNoData, panic |-> FALSE, d |-> kept]
        ELSE [err |-> NoErr, panic |-> FALSE,
              d |-> [Temperature |-> Round(r.q.Value),
                     Weather |-> IconOf(r.q.Data[Len(r.q.Data)]),
                     URL |-> r.URL,
                     units |-> units,
                     UnitIcon |-> UnitIconOf(units)]]

\* setStatus, given what getResult returned and did: the error it returns,
\* whether it panics (q is dereferenced when getResult returned a nil pointer
\* and no error), and the fields as it leaves them.
setStatus(p, dd, r) ==
    LET units == GetString(p, Units, DefaultUnits)
        kept == [dd EXCEPT !.URL = r.URL]
    IN  IF r.err # NoErr THEN [err |-> r.err, panic |-> FALSE, d |-> kept]
        ELSE IF r.q.nil THEN [err |-> NoErr, panic |-> TRUE, d |-> kept]
        ELSE IF Len(r.q.Data) = 0 THEN [err |-> ErrNoData, panic |-> FALSE, d |-> kept]
        ELSE [err |-> NoErr, panic |-> FALSE,
              d |-> [Temperature |-> Round(r.q.Value),
                     Weather |-> IconOf(r.q.Data[1]),
                     URL |-> r.URL,
                     units |-> units,
                     UnitIcon |-> UnitIconOf(units)]]

\* Enabled's own part: the error goes to env.Error and false is returned,
\* or true is returned; a panic of setStatus passes through it.
EnabledResult(s) ==
    IF s.panic THEN [ret |-> "panic", reported |-> <<>>]
    ELSE IF s.err # NoErr THEN [ret |-> "false", reported |-> <<s.err>>]
    ELSE [ret |-> "true", reported |-> <<>>]

----------------------------------------------------------------------------
(* The environment: HTTP responses, configurations *)

RespError == [err |-> ErrTransport, body |-> <<>>]
RespBody(b) == [err |-> NoErr, body |-> b]
NoResp == [err |-> NoErr, body |-> <<>>]

BodyEmpty == BodyObject(<<>>, 155)
BodyClear == BodyObject(<<"01d">>, 155)
BodyOther == BodyObject(<<"99x", "01d">>, -155)

Bodies == {BodyInvalid, BodyNull, BodyEmpty, BodyClear, BodyOther}
Responses == {RespError} \cup {RespBody(b) : b \in Bodies}

Unset == <<"(unset)">>
StringKeys == {APIKey, APIKeyAlias, Location, Latitude, Longitude, Units}

\* The properties map in which exactly the chosen keys are set.
MkProps(f) ==
    [k \in {s \in StringKeys : f[s] # Unset} \cup {CacheTimeout} |-> f[k]]

PropsOver(keys, aliases, locations, lats, lons, units, timeouts) ==
    { MkProps([api_key |-> k, apiKey |-> a, location |-> l, lat |-> la, lon |-> lo,
               units |-> u, cache_timeout |-> ct]) :
        k \in keys, a \in aliases, l \in locations, la \in lats, lo \in lons,
        u \in units, ct \in timeouts }

EnvOver(keys, locations, lats, lons) ==
    [POSH_OWM_API_KEY : keys, POSH_OWM_LOCATION : locations,
     POSH_OWM_LAT : lats, POSH_OWM_LON : lons]

\* The configurations of the sequential runs.
MainProps ==
    PropsOver({<<>>, <<"key">>}, {Unset}, {Unset}, {Unset}, {Unset},
              {<<"metric">>, <<"imperial">>}, {0, 2})
MainEnv == EnvOver({<<>>}, {<<>>}, {<<>>}, {<<>>})

\* The configurations of the runs that exercise the resolution of the
\* settings and the URL construction.
AllProps ==
    PropsOver({Unset, <<>>, <<"key">>}, {Unset, <<"alias">>},
              {Unset, <<>>, <<"a", "&", "lat", "=", "b">>},
              {<<>>, <<"52.1">>}, {Unset, <<>>},
              {Unset, <<"imperial">>, <<"metric">>, <<"standard">>, <<>>, <<"unknown">>},
              {0})
AllEnv == EnvOver({<<>>, <<"envkey">>}, {<<>>, <<"Oslo">>}, {<<>>, <<"q", "=", "1">>}, {<<>>, <<"5.2">>})

----------------------------------------------------------------------------
(* The state machine *)

NoCall ==
    [ret |-> "none", reported |-> <<>>, http |-> <<>>, gets |-> <<>>, sets |-> <<>>,
     hit |-> FALSE, at |-> 0, ct |-> 0, resp |-> NoResp, live |-> FALSE,
     pre |-> NoEntry, old |-> NoEntry, urlFound |-> FALSE]

EmptyCache == [k \in {CacheKeyResponse, CacheKeyURL} |-> NoEntry]

\* No segment runs concurrently.
NoConc == [seg |-> <<>>, origin |-> <<>>]

InitWith(P, E) ==
    /\ props \in P
    /\ env \in E
    /\ cache = EmptyCache
    /\ now = 0
    /\ d = ZeroOwm
    /\ call = NoCall
    /\ lastOk = [any |-> FALSE, d |-> ZeroOwm]
    /\ fill = [exp |-> 0, Temperature |-> 0, Weather |-> "", url |-> <<>>]
    /\ conc = NoConc

Init == InitWith(MainProps, MainEnv)

\* One invocation of Enabled(), from call to return (or panic), the HTTP
\* request, if it makes one, answered by one of the responses R.
Invoke(R) ==
    /\ call.ret # "panic"
    /\ \E resp \in R :
        LET r == getResult(props, env, [kv |-> cache, sets |-> <<>>], now, d.URL, resp)
            s == setStatus(props, d, r)
            e == EnabledResult(s)
            ct == GetInt(props, CacheTimeout)
            filled == e.ret = "true" /\ ~r.hit /\ ct > 0
        IN  /\ d' = s.d
            /\ cache' = r.cache.kv
            /\ call' = [ret |-> e.ret, reported |-> e.reported, http |-> r.http,
                        gets |-> r.gets, sets |-> r.cache.sets, hit |-> r.hit, at |-> now,
                        ct |-> ct,
                        resp |-> IF r.http = <<>> THEN NoResp ELSE resp,
                        live |-> now < fill.exp,
                        pre |-> IF cache[CacheKeyResponse].set /\ now < cache[CacheKeyResponse].exp
                                THEN cache[CacheKeyResponse] ELSE NoEntry,
                        old |-> cache[CacheKeyResponse],
                        urlFound |-> cache[CacheKeyURL].set /\ now < cache[CacheKeyURL].exp]
            /\ lastOk' = IF e.ret = "true" THEN [any |-> TRUE, d |-> s.d] ELSE lastOk
            /\ fill' = IF filled
                       THEN [exp |-> now + ct, Temperature |-> s.d.Temperature,
                             Weather |-> s.d.Weather, url |-> r.http[1]]
                       ELSE fill
    /\ UNCHANGED <<props, env, now, conc>>

Enabled == Invoke(Responses)

\* Owm.Init: the segment is given its properties.
OwmInit ==
    /\ call.ret # "panic"
    /\ \E p \in MainProps : props' = p /\ p # props
    /\ UNCHANGED <<env, cache, now, d, call, lastOk, fill, conc>>

\* A minute passes.
Tick ==
    /\ call.ret # "panic"
    /\ now < MaxTime
    /\ now' = now + 1
    /\ UNCHANGED <<props, env, cache, d, call, lastOk, fill, conc>>

Next == Enabled \/ OwmInit \/ Tick

Spec == Init /\ [][Next]_vars

\* The cache store is shared with other writers: one of them leaves a value
\* that is no weather response under owm_response, or removes owm_url.
ExternalSet ==
    /\ call.ret # "panic"
    /\ cache[CacheKeyResponse].val # BodyInvalid
    /\ cache' = [cache EXCEPT ![CacheKeyResponse] =
                     [set |-> TRUE, val |-> BodyInvalid, exp |-> now + 1]]
    /\ UNCHANGED <<props, env, now, d, call, lastOk, fill, conc>>

ExternalDelete ==
    /\ call.ret # "panic"
    /\ cache[CacheKeyURL].set
    /\ cache' = [cache EXCEPT ![CacheKeyURL] = NoEntry]
    /\ UNCHANGED <<props, env, now, d, call, lastOk, fill, conc>>

\* The configuration is fixed for each of these runs.
NextExt == Enabled \/ Tick \/ ExternalSet \/ ExternalDelete

SpecExt == Init /\ [][NextExt]_vars

\* The runs over every configuration, each configuration fixed for its run.
InitCfg == InitWith(AllProps, AllEnv)

NextCfg == Enabled

SpecCfg == InitCfg /\ [][NextCfg]_vars

\* The runs over the payloads: one configuration, every temperature of a
\* range and every type code, alone and followed by a second observation.
MaxTenths == 160

TypeCodes ==
    {"01n", "01d", "02n", "02d", "03n", "03d", "04n", "04d", "09n", "09d", "10n",
     "10d", "11n", "11d", "13n", "13d", "50n", "50d", "99x", "01D", "01"}

DataResponses ==
    {RespBody(BodyObject(<<"01d">>, t)) : t \in (0 - MaxTenths)..MaxTenths}
    \cup {RespBody(BodyObject(<<c>>, 154)) : c \in TypeCodes}
    \cup {RespBody(BodyObject(<<c, c2>>, 154)) : c \in TypeCodes, c2 \in {"01d", "99x"}}

DataProps == PropsOver({<<"key">>}, {Unset}, {Unset}, {Unset}, {Unset}, {<<"metric">>}, {0})

InitData == InitWith(DataProps, MainEnv)

EnabledData == Invoke(DataResponses)

NextData == EnabledData

SpecData == InitData /\ [][NextData]_vars

----------------------------------------------------------------------------
(* Concurrent invocations *)

\* Two Owm segments of one prompt, each with its own properties, run
\* Enabled() concurrently on the one cache store.  Each Get, each Set and
\* the HTTP request is one step; what a segment does between them touches
\* only its own value.  conc.seg[i] is segment i: its properties, its place
\* in getResult, its d.URL, the body and response it holds, and what its
\* last Enabled() returned.  conc.origin is history: the URL of the request
\* that produced the body now under owm_response.
Segs == {1, 2}

ConcProps ==
    PropsOver({<<"key">>}, {Unset}, {Unset}, {Unset}, {Unset},
              {<<"metric">>, <<"imperial">>}, {0, 2})

ConcResponses == {RespError, RespBody(BodyNull), RespBody(BodyClear), RespBody(BodyOther)}

NewSeg(p) ==
    [props |-> p, pc |-> "start", URL |-> <<>>, body |-> <<>>, q |-> NilResponse,
     err |-> NoErr, ret |-> "none"]

InitConc ==
    /\ props \in DataProps
    /\ env \in MainEnv
    /\ cache = EmptyCache
    /\ now = 0
    /\ d = ZeroOwm
    /\ call = NoCall
    /\ lastOk = [any |-> FALSE, d |-> ZeroOwm]
    /\ fill = [exp |-> 0, Temperature |-> 0, Weather |-> "", url |-> <<>>]
    /\ \E p1 \in ConcProps, p2 \in ConcProps :
           conc = [seg |-> <<NewSeg(p1), NewSeg(p2)>>, origin |-> <<>>]

Running == \A i \in Segs : conc.seg[i].ret # "panic"

SegStep(i, s) == conc' = [conc EXCEPT !.seg[i] = s]

\* getResult up to the lookup of owm_response.
Lookup(i) ==
    LET s == conc.seg[i]
        c == [kv |-> cache, sets |-> <<>>]
        cacheTimeout == GetInt(s.props, CacheTimeout)
    IN  /\ Running
        /\ s.pc = "start"
        /\ IF cacheTimeout > 0 /\ CacheFound(c, now, CacheKeyResponse)
           THEN SegStep(i, [s EXCEPT !.pc = "found",
                                     !.body = CacheGet(c, now, CacheKeyResponse)])
           ELSE SegStep(i, [s EXCEPT !.pc = "request"])
        /\ UNCHANGED <<props, env, cache, now, d, call, lastOk, fill>>

\* The value found is parsed and, if it parses, owm_url is read.
ReadURL(i) ==
    LET s == conc.seg[i]
        c == [kv |-> cache, sets |-> <<>>]
        um == UnmarshalInto(s.body)
    IN  /\ Running
        /\ s.pc = "found"
        /\ IF um.err # NoErr
           THEN SegStep(i, [s EXCEPT !.pc = "status", !.q = NilResponse, !.err = um.err])
           ELSE SegStep(i, [s EXCEPT !.pc = "status", !.q = um.v, !.err = NoErr,
                                     !.URL = CacheGet(c, now, CacheKeyURL)])
        /\ UNCHANGED <<props, env, cache, now, d, call, lastOk, fill>>

\* The key is resolved, the URL built and the request made and parsed.
Request(i) ==
    LET s == conc.seg[i]
        cacheTimeout == GetInt(s.props, CacheTimeout)
        url == BuildURL(s.props, env)
    IN  /\ Running
        /\ s.pc = "request"
        /\ IF Len(ResolveAPIKey(s.props, env)) = 0
           THEN SegStep(i, [s EXCEPT !.pc = "status", !.q = NilResponse, !.err = ErrNoAPIKey])
           ELSE \E resp \in ConcResponses :
                    LET um == UnmarshalPtr(resp.body)
                    IN  IF resp.err # NoErr
                        THEN SegStep(i, [s EXCEPT !.pc = "status", !.URL = url,
                                                  !.q = NewResponse, !.err = resp.err])
                        ELSE IF um.err # NoErr
                        THEN SegStep(i, [s EXCEPT !.pc = "status", !.URL = url,
                                                  !.q = NewResponse, !.err = um.err])
                        ELSE SegStep(i, [s EXCEPT !.pc = IF cacheTimeout > 0
                                                         THEN "setResponse" ELSE "status",
                                                  !.URL = url, !.body = resp.body,
                                                  !.q = um.v, !.err = NoErr])
        /\ UNCHANGED <<props, env, cache, now, d, call, lastOk, fill>>

\* Cache().Set(CacheKeyResponse, string(body), cacheTimeout)
SetResponse(i) ==
    LET s == conc.seg[i]
        c == [kv |-> cache, sets |-> <<>>]
    IN  /\ Running
        /\ s.pc = "setResponse"
        /\ cache' = CacheSet(c, now, CacheKeyResponse, s.body,
                             GetInt(s.props, CacheTimeout)).kv
        /\ conc' = [conc EXCEPT !.seg[i].pc = "setURL", !.origin = s.URL]
        /\ UNCHANGED <<props, env, now, d, call, lastOk, fill>>

\* Cache().Set(CacheKeyURL, d.URL, cacheTimeout)
SetURL(i) ==
    LET s == conc.seg[i]
        c == [kv |-> cache, sets |-> <<>>]
    IN  /\ Running
        /\ s.pc = "setURL"
        /\ cache' = CacheSet(c, now, CacheKeyURL, s.URL, GetInt(s.props, CacheTimeout)).kv
        /\ SegStep(i, [s EXCEPT !.pc = "status"])
        /\ UNCHANGED <<props, env, now, d, call, lastOk, fill>>

\* getResult returns; setStatus and the rest of Enabled.
Status(i) ==
    LET s == conc.seg[i]
        r == Outcome(s.q, s.err, s.URL, [kv |-> cache, sets |-> <<>>], <<>>, <<>>, FALSE)
        e == EnabledResult(setStatus(s.props, ZeroOwm, r))
    IN  /\ Running
        /\ s.pc = "status"
        /\ SegStep(i, [s EXCEPT !.pc = "start", !.ret = e.ret])
        /\ UNCHANGED <<props, env, cache, now, d, call, lastOk, fill>>

\* A minute passes while the segments run.
TickConc ==
    /\ Running
    /\ now < MaxTime
    /\ now' = now + 1
    /\ UNCHANGED <<props, env, cache, d, call, lastOk, fill, conc>>

NextConc ==
    \/ \E i \in Segs : Lookup(i)
    \/ \E i \in Segs : ReadURL(i)
    \/ \E i \in Segs : Request(i)
    \/ \E i \in Segs : SetResponse(i)
    \/ \E i \in Segs : SetURL(i)
    \/ \E i \in Segs : Status(i)
    \/ TickConc

SpecConc == InitConc /\ [][NextConc]_vars

----------------------------------------------------------------------------
(* Properties *)

\* The fields the host reads.
Exposed(o) == <<o.Temperature, o.Weather, o.UnitIcon, o.URL>>

\* url has a query parameter of this name.
HasParam(url, name) ==
    \E i \in 1..(Len(url) - 2) :
        url[i] \in {"?", "&"} /\ url[i + 1] = name /\ url[i + 2] = "="

\* url has the query parameter name=value.
HasParamValue(url, name, value) ==
    \E i \in 1..(Len(url) - 2) :
        /\ url[i] \in {"?", "&"} /\ url[i + 1] = name /\ url[i + 2] = "="
        /\ Len(url) >= i + 2 + Len(value)
        /\ SubSeq(url, i + 3, i + 2 + Len(value)) = value
        /\ (Len(url) = i + 2 + Len(value) \/ url[i + 3 + Len(value)] = "&")

\* The first non-empty string of a sequence of strings, "" when there is none.
FirstNonEmpty(vals) ==
    LET ne == {i \in 1..Len(vals) : vals[i] # <<>>}
    IN  IF ne = {} THEN <<>> ELSE vals[CHOOSE i \in ne : \A j \in ne : i <= j]

PropOrEmpty(p, key) == IF key \in DOMAIN p THEN p[key] ELSE <<>>

\* The units the invocation asks for.
UnitsOf(p) == GetString(p, Units, DefaultUnits)

\* C1: with cacheTimeout > 0, an invocation made while the entry cached by
\* an invocation that fetched and returned true has not expired issues no
\* HTTP request, returns true, and ends with the Temperature and Weather of
\* the invocation that filled the cache.
C1_CachedRepeat ==
    (call.ret # "none" /\ call.ct > 0 /\ call.live) =>
        /\ call.http = <<>>
        /\ call.ret = "true"
        /\ d.Temperature = fill.Temperature
        /\ d.Weather = fill.Weather

\* C1's case: a cache hit, some minutes after the fill, repeating its values.
C1_Witness ==
    /\ call.ret = "true" /\ call.ct > 0 /\ call.live /\ call.hit
    /\ call.at > 0 /\ call.http = <<>>
    /\ d.Weather = "U+E30D" /\ d.Temperature = 16

\* No api_key or apiKey property with a value, and no POSH_OWM_API_KEY value.
NoAPIKeyGiven(p, e) ==
    /\ \A k \in {APIKey, APIKeyAlias} : PropOrEmpty(p, k) = <<>>
    /\ Getenv(e, PoshOWMAPIKey) = <<>>

\* C2, as stated: an invocation for which neither a property nor the
\* environment gives an API key fails with "no api key found" and issues no
\* HTTP request.
C2_Original ==
    (call.ret # "none" /\ NoAPIKeyGiven(props, env)) =>
        /\ call.ret = "false"
        /\ call.reported = <<ErrNoAPIKey>>
        /\ call.http = <<>>

\* C3, as stated: every invocation returns to its caller, true exactly when
\* it derived the fields from a response with nothing reported, false with
\* the error reported exactly once otherwise.
C3_Original ==
    call.ret # "none" =>
        /\ call.ret \in {"true", "false"}
        /\ call.ret = "true" => (call.reported = <<>> /\ lastOk.d = d)
        /\ call.ret = "false" => Len(call.reported) = 1

\* C4, as stated: after a successful invocation UnitIcon is the Fahrenheit
\* suffix for imperial, the Celsius suffix for metric and the Kelvin suffix
\* for every other units value.
C4_Original ==
    call.ret = "true" =>
        d.UnitIcon = (CASE UnitsOf(props) = <<"imperial">> -> DegF
                        [] UnitsOf(props) = <<"metric">> -> DegC
                        [] OTHER -> DegK)

\* C4, amended: after a successful invocation UnitIcon is the Fahrenheit
\* suffix for imperial, the Celsius suffix for metric, the Kelvin suffix for
\* standard, for the empty string and when units is not set, and the glyph
\* U+E33E for every other value.
C4_UnitIcon ==
    call.ret = "true" =>
        /\ UnitsOf(props) = <<"imperial">> => d.UnitIcon = DegF
        /\ UnitsOf(props) = <<"metric">> => d.UnitIcon = DegC
        /\ UnitsOf(props) \in {<<"standard">>, <<>>} => d.UnitIcon = DegK
        /\ UnitsOf(props) \notin {<<"imperial">>, <<"metric">>, <<"standard">>, <<>>}
              => d.UnitIcon = DegGlyph

\* C4's case: successful invocations with the empty and an unrecognized units.
C4_Witness ==
    /\ call.ret = "true"
    /\ \/ Units \in DOMAIN props /\ props[Units] = <<>> /\ d.UnitIcon = DegK
       \/ Units \in DOMAIN props /\ props[Units] = <<"unknown">> /\ d.UnitIcon = DegGlyph

\* The invocation fetched a response that parses and has no observation.
FetchedEmpty ==
    /\ call.http # <<>>
    /\ call.resp.err = NoErr
    /\ UnmarshalPtr(call.resp.body).err = NoErr
    /\ Len(UnmarshalPtr(call.resp.body).v.Data) = 0

\* C5, as stated: an invocation that fetches a parseable response with no
\* observation fails with the empty-weather-data error and leaves the
\* exposed fields as the prior successful invocation left them.
C5_Original ==
    (FetchedEmpty /\ lastOk.any) =>
        /\ call.ret = "false"
        /\ call.reported = <<ErrNoData>>
        /\ Exposed(d) = Exposed(lastOk.d)

\* The URL of the request if each setting were the first non-empty of its
\* property, its environment variable and its default.
ClaimedURL(p, e) ==
    LET apikey == FirstNonEmpty(<<PropOrEmpty(p, APIKey), PropOrEmpty(p, APIKeyAlias),
                                  Getenv(e, PoshOWMAPIKey), DefaultAPIKey>>)
        location == FirstNonEmpty(<<PropOrEmpty(p, Location),
                                    Getenv(e, PoshOWMLocationKey), DefaultLocation>>)
        lat == FirstNonEmpty(<<PropOrEmpty(p, Latitude), Getenv(e, PoshOWMLatKey),
                               DefaultLatLon>>)
        lon == FirstNonEmpty(<<PropOrEmpty(p, Longitude), Getenv(e, PoshOWMLonKey),
                               DefaultLatLon>>)
    IN  IF Len(location) > 0
        THEN PlaceURL(QueryEscape(location), UnitsOf(p), apikey)
        ELSE CoordURL(QueryEscape(lat), QueryEscape(lon), UnitsOf(p), apikey)

\* C6, as stated: the API key, location, latitude and longitude of a request
\* are each the first non-empty of property, environment variable, default.
C6_Original ==
    call.http # <<>> => call.http[1] = ClaimedURL(props, env)

\* C7: with cacheTimeout = 0 an invocation neither reads nor writes the
\* cache store, and unless it fails for want of an API key it issues
\* exactly one HTTP request.
C7_NoCaching ==
    (call.ret # "none" /\ call.ct = 0) =>
        /\ call.gets = <<>>
        /\ call.sets = <<>>
        /\ ~call.hit
        /\ call.reported # <<ErrNoAPIKey>> => Len(call.http) = 1

\* C7's case: cacheTimeout = 0 while the store holds a live entry, which the
\* invocation does not read: it fetches.
C7_Witness ==
    /\ call.ret = "true" /\ call.ct = 0 /\ call.pre.set
    /\ Len(call.http) = 1 /\ call.gets = <<>> /\ call.sets = <<>>

FoundCorrupt == call.pre.set /\ UnmarshalInto(call.pre.val).err # NoErr

\* C9: with cacheTimeout > 0, an invocation that finds a value under
\* owm_response that does not deserialize returns false with the error
\* reported and issues no HTTP request.
C9_CorruptCacheFails ==
    (call.ret # "none" /\ call.ct > 0 /\ FoundCorrupt) =>
        /\ call.ret = "false"
        /\ call.reported = <<ErrCacheJSON>>
        /\ call.http = <<>>
        /\ call.hit

\* C9's case: such an invocation, with an API key that would allow a fetch.
C9_Witness ==
    /\ call.ret = "false" /\ call.ct > 0 /\ FoundCorrupt
    /\ Len(ResolveAPIKey(props, env)) > 0

\* C10: an invocation writes both cache keys or neither, owm_response first,
\* with the same expiry, so one is present exactly when the other is.
C10_KeysTogether ==
    /\ call.sets \in {<<>>, <<CacheKeyResponse, CacheKeyURL>>}
    /\ cache[CacheKeyResponse].set = cache[CacheKeyURL].set
    /\ cache[CacheKeyResponse].exp = cache[CacheKeyURL].exp
    /\ \A t \in 0..(MaxTime + 2) :
          CacheFound([kv |-> cache, sets |-> <<>>], t, CacheKeyResponse)
          <=> CacheFound([kv |-> cache, sets |-> <<>>], t, CacheKeyURL)

\* C10's case: an invocation has written the keys and both are present.
C10_Witness ==
    /\ call.sets = <<CacheKeyResponse, CacheKeyURL>>
    /\ cache[CacheKeyResponse].set /\ now < cache[CacheKeyResponse].exp
    /\ cache[CacheKeyURL].set /\ now < cache[CacheKeyURL].exp

\* The invocation made a request and its response parsed.
FetchedParsed ==
    /\ call.http # <<>>
    /\ call.resp.err = NoErr
    /\ UnmarshalPtr(call.resp.body).err = NoErr

\* C11: an invocation issues at most one HTTP request; one that ends with a
\* transport error or a response that does not deserialize has issued
\* exactly one and returns false with that error.
C11_SingleAttempt ==
    call.ret # "none" =>
        /\ Len(call.http) <= 1
        /\ call.reported \in {<<ErrTransport>>, <<ErrBodyJSON>>} =>
              Len(call.http) = 1 /\ call.ret = "false"
        /\ (call.http # <<>> /\ call.resp.err # NoErr) => call.reported = <<ErrTransport>>
        /\ (call.http # <<>> /\ call.resp.err = NoErr
              /\ UnmarshalPtr(call.resp.body).err # NoErr) => call.reported = <<ErrBodyJSON>>

\* C11's case: an invocation whose one request failed in transport.
C11_Witness ==
    call.ret = "false" /\ call.reported = <<ErrTransport>> /\ Len(call.http) = 1

\* n is t, a value in tenths, rounded to an integer, halves away from zero.
RoundsHalfAway(t, n) ==
    IF t >= 0 THEN 10 * n - 5 <= t /\ t < 10 * n + 5
    ELSE 10 * n - 5 < t /\ t <= 10 * n + 5

\* C13: after an invocation that fetched and returned true, Temperature is
\* the temperature of the response rounded half away from zero: 15.5 gives
\* 16, -15.5 gives -16, 15.4 gives 15.
C13_Rounding ==
    (call.ret = "true" /\ call.http # <<>>) =>
        LET t == call.resp.body[3]
        IN  /\ RoundsHalfAway(t, d.Temperature)
            /\ t = 155 => d.Temperature = 16
            /\ t = 0 - 155 => d.Temperature = 0 - 16
            /\ t = 154 => d.Temperature = 15

\* C13's case: a negative exact half.
C13_Witness ==
    /\ call.ret = "true" /\ call.http # <<>>
    /\ call.resp.body[3] = 0 - 155 /\ d.Temperature = 0 - 16

\* The table of type codes and glyphs.
GlyphTable ==
    {<<"01n", "U+E32B">>, <<"01d", "U+E30D">>, <<"02n", "U+E37E">>, <<"02d", "U+E302">>,
     <<"03n", "U+E33D">>, <<"03d", "U+E33D">>, <<"04n", "U+E312">>, <<"04d", "U+E312">>,
     <<"09n", "U+E319">>, <<"09d", "U+E319">>, <<"10n", "U+E325">>, <<"10d", "U+E308">>,
     <<"11n", "U+E32A">>, <<"11d", "U+E30F">>, <<"13n", "U+E31A">>, <<"13d", "U+E31A">>,
     <<"50n", "U+E313">>, <<"50d", "U+E313">>}

GlyphFor(code) ==
    IF \E g \in GlyphTable : g[1] = code
    THEN (CHOOSE g \in GlyphTable : g[1] = code)[2]
    ELSE ""

\* C14: an invocation that fetches a response with at least one observation
\* returns true, and Weather is the glyph the table gives for the type code
\* of the first observation, the empty string when the table has no such code.
C14_WeatherGlyph ==
    (call.ret # "none" /\ FetchedParsed /\ ~UnmarshalPtr(call.resp.body).v.nil
        /\ Len(UnmarshalPtr(call.resp.body).v.Data) > 0) =>
        /\ call.ret = "true"
        /\ d.Weather = GlyphFor(UnmarshalPtr(call.resp.body).v.Data[1])

\* C14's case: an unrecognized first type code followed by a recognized one.
C14_Witness ==
    /\ call.ret = "true" /\ call.http # <<>>
    /\ call.resp.body[2] = <<"99x", "01d">> /\ d.Weather = ""

\* C15: an invocation writes the cache only with cacheTimeout > 0 and after
\* a request whose response deserialized; one whose request failed in
\* transport or whose response does not deserialize writes no key.
C15_WriteOnlyOnSuccess ==
    call.ret # "none" =>
        /\ call.sets # <<>> => (call.ct > 0 /\ FetchedParsed)
        /\ call.reported \in {<<ErrTransport>>, <<ErrBodyJSON>>} =>
              /\ call.sets = <<>>
              /\ cache[CacheKeyResponse].set => cache[CacheKeyResponse].val # call.resp.body

\* C15's case: with cacheTimeout > 0, a response that does not deserialize.
C15_Witness ==
    /\ call.ret = "false" /\ call.ct > 0 /\ call.reported = <<ErrBodyJSON>>
    /\ call.sets = <<>>

\* C16, as stated: every value under owm_response deserializes to a response
\* with at least one observation, and every cache hit returns true.
C16_Original ==
    /\ cache[CacheKeyResponse].set =>
          /\ UnmarshalInto(cache[CacheKeyResponse].val).err = NoErr
          /\ Len(UnmarshalInto(cache[CacheKeyResponse].val).v.Data) > 0
    /\ call.hit => call.ret = "true"

\* C17, as stated: after a successful invocation, the response the
\* Temperature comes from was requested with the units of this invocation,
\* which UnitIcon denotes.
C17_Original ==
    call.ret = "true" =>
        /\ d.UnitIcon = UnitIconOf(d.units)
        /\ call.hit => HasParamValue(fill.url, "units", d.units)
        /\ ~call.hit => HasParamValue(call.http[1], "units", d.units)

\* C18: with cacheTimeout > 0 and no live entry under owm_response, an
\* invocation that resolves an API key issues exactly one request, and if it
\* returns true both keys hold the new body and URL, expiring cacheTimeout
\* minutes later; a cache hit derives its fields from the stored body.
C18_RefreshAfterExpiry ==
    /\ (call.ret # "none" /\ call.ct > 0 /\ ~call.pre.set
          /\ call.reported # <<ErrNoAPIKey>>) =>
          /\ Len(call.http) = 1
          /\ call.ret = "true" =>
                /\ cache[CacheKeyResponse] =
                      [set |-> TRUE, val |-> call.resp.body, exp |-> call.at + call.ct]
                /\ cache[CacheKeyURL] =
                      [set |-> TRUE, val |-> call.http[1], exp |-> call.at + call.ct]
    /\ (call.ret = "true" /\ call.hit) =>
          /\ call.http = <<>>
          /\ d.Temperature = Round(cache[CacheKeyResponse].val[3])
          /\ d.Weather = IconOf(cache[CacheKeyResponse].val[2][1])

\* C18's case: an expired entry with another body was in the store.
C18_Witness ==
    /\ call.ret = "true" /\ call.ct > 0 /\ ~call.pre.set /\ call.old.set
    /\ call.old.val # call.resp.body
    /\ cache[CacheKeyResponse].val = call.resp.body

\* C19: after a successful invocation, URL is the URL of the request that
\* produced the response the fields were derived from: this invocation's
\* request, or on a cache hit the request of the invocation that filled
\* the cache.
C19_URLOfResponse ==
    call.ret = "true" =>
        /\ ~call.hit => (Len(call.http) = 1 /\ d.URL = call.http[1])
        /\ call.hit => (d.URL = fill.url /\ fill.url # <<>>)

\* C19's case: a cache hit whose URL differs from the URL this invocation
\* would have requested.
C19_Witness ==
    /\ call.ret = "true" /\ call.hit /\ d.URL = fill.url
    /\ d.URL # BuildURL(props, env) /\ d.units # UnitsOf(props)

\* C20, as stated: a cache hit on a value that deserializes, with owm_url
\* absent, returns true, issues no request and writes nothing.
C20_Original ==
    (call.ret # "none" /\ call.ct > 0 /\ call.pre.set /\ ~call.urlFound
        /\ UnmarshalInto(call.pre.val).err = NoErr) =>
        /\ call.ret = "true"
        /\ call.http = <<>>
        /\ call.sets = <<>>


\* None of the segments is inside Enabled(), and each has returned from it.
AllReturned == \A i \in Segs : conc.seg[i].pc = "start" /\ conc.seg[i].ret # "none"

\* C12: when concurrent invocations have all finished, the value under
\* owm_url is the URL of the request that produced the body under
\* owm_response.
C12_Original ==
    (AllReturned /\ cache[CacheKeyResponse].set)
        => (cache[CacheKeyURL].set /\ cache[CacheKeyURL].val = conc.origin)

====
